---- MODULE Spec2Model ----
(***************************************************************************)
(* Vote ingestion of the marketplace: VoteActionService (the listener for  *)
(* VoteReceivedEvent, processVoteReceivedEvent, createOrUpdateVote,        *)
(* shouldRemoveListingItem) and the part of ListingItemService it calls    *)
(* (findOne, destroy), and VoteActionService.send.                         *)
(*                                                                         *)
(* Spec        one vote event at a time: the listener handles an event to  *)
(*             the end (VoteReceivedEvent), then reports its status        *)
(*             (ThenUpdateStatus / CatchUpdateStatus).                     *)
(* FairSpec    Spec with the fairness of the promise callbacks.            *)
(* PolicySpec  shouldRemoveListingItem applied to arbitrary snapshots.     *)
(* ArrivalSpec votes that arrive before the proposal they are for.         *)
(* RedeliverySpec  a vote that failed half way, delivered again.           *)
(* OrderSpec   two nodes that handle the same votes in any two orders.     *)
(* OracleSpec  voters whose weight changes between vote events.            *)
(* ListingSpec ListingItemService.findOne and destroy on their own.        *)
(* CastSpec    send, and the votes it sent coming back to the listener.    *)
(* ConcurrentSpec  listener calls that interleave at their awaits.         *)
(***************************************************************************)
EXTENDS Integers, Sequences, FiniteSets, TLC

\* ---------------------------------------------------------------- bounds
MaxWeight == 1
MaxSnapshotWeight == 3

\* ------------------------------------------------------------- constants
\* process.env.MINIMUM_REQUIRED_VOTES || 1000
DefaultMinimumRequiredVotes == 1000

\* process.env.MINIMUM_REQUIRED_VOTES is not set
Unset == -1

\* the value process.env.MINIMUM_REQUIRED_VOTES has in Spec
ConfiguredMinimumVotes == 1

Profiles == {"local"}
RemoteAddresses == {"r1", "r2"}
Addresses == Profiles \cup RemoteAddresses
Hashes == {"p1", "p2"}
ListingId == 1
AddressId == 10

\* optionId 0 is keep, 1 is remove (lines 198, 201); 2 is any other id
OptionIds == {0, 1, 2}

\* daysretention is only compared with 1 (line 147)
Retentions == {0, 1}
Weights == 0..MaxWeight

VARIABLES
    proposals,                \* hash -> Proposal (id 0: not known locally)
    votes,                    \* the Vote table, row id = index
    proposalResults,          \* hash -> optionId -> [voters, weight]
    listingItems,             \* id -> listing, for the listings that exist
    cryptocurrencyAddresses,  \* ids of the CryptocurrencyAddress rows
    removals,                 \* number of listingItemRepo.destroy calls made
    minimumRequiredVotes,     \* process.env.MINIMUM_REQUIRED_VOTES
    phase,                    \* position of the listener
    event,                    \* the event the listener was last called with
    outcome,                  \* what processVoteReceivedEvent did with it
    reports,                  \* statuses given to updateSmsgMessageStatus for event
    sends,                    \* the calls of send, with what each gave to smsgSend
    deferred,                 \* the vote whose redelivery is followed, once it has to wait
    handlers,                 \* the listener calls in flight, when they interleave
    voteWeights,              \* voter -> what getVoteWeight answers now, when followed
    replay,                   \* the same votes handled in another order, when compared
    call                      \* the last call made on ListingItemService directly

vars == <<proposals, votes, proposalResults, listingItems, cryptocurrencyAddresses,
          removals, minimumRequiredVotes, phase, event, outcome, reports,
          sends, deferred, handlers, voteWeights, replay, call>>

\* ------------------------------------------------------------------ data
UnknownProposal == [id |-> 0, type |-> "NONE", options |-> {}, listingItemId |-> 0]

ItemVoteProposal == [id |-> 1, type |-> "ITEM_VOTE", options |-> {0, 1},
                     listingItemId |-> ListingId]

PublicVoteProposal == [id |-> 1, type |-> "PUBLIC_VOTE", options |-> {0, 1, 2},
                       listingItemId |-> 0]

\* a sender that is not the voter
OtherThan(a) == CHOOSE b \in Addresses : b # a

\* events whose sender is the voter. The proposal of hash p2 is never known: the
\* lookup on line 115 fails before the option or the retention is read
GenuineEvents ==
    {[mpaction |-> TRUE, voter |-> a, from |-> a, proposalHash |-> "p1",
      optionId |-> o, daysretention |-> d] :
        a \in Addresses, o \in OptionIds, d \in Retentions}
    \cup
    {[mpaction |-> TRUE, voter |-> a, from |-> a, proposalHash |-> "p2",
      optionId |-> 0, daysretention |-> 1] : a \in Addresses}

\* events whose sender is not the voter: line 111 throws before anything but the
\* voter and the sender is read
SpoofedEvents ==
    {[mpaction |-> TRUE, voter |-> a, from |-> OtherThan(a), proposalHash |-> h,
      optionId |-> 0, daysretention |-> 1] : a \in Addresses, h \in Hashes}

WellFormedEvents == GenuineEvents \cup SpoofedEvents

MalformedEvents ==
    {[mpaction |-> FALSE, voter |-> "none", from |-> a, proposalHash |-> "none",
      optionId |-> 0, daysretention |-> 1] : a \in Addresses}

Events == WellFormedEvents \cup MalformedEvents

NoEvent == [mpaction |-> FALSE, voter |-> "none", from |-> "none", proposalHash |-> "none",
            optionId |-> 0, daysretention |-> 0]

\* lastVote: the optionId of the row createOrUpdateVote found, -1 when it found none
NoOutcome == [kind |-> "none", status |-> "NONE", weight |-> -1, upsert |-> "none",
              lastVote |-> -1, recalculated |-> "no", verdict |-> "none",
              destroyed |-> FALSE]

\* no call was made on ListingItemService directly
NoCall == [op |-> "none", id |-> 0, thrown |-> FALSE]

Min(S) == CHOOSE x \in S : \A y \in S : x <= y

RECURSIVE SumWeight(_, _)
SumWeight(vs, rows) ==
    IF rows = {} THEN 0
    ELSE LET i == Min(rows) IN vs[i].weight + SumWeight(vs, rows \ {i})

\* ------------------------------------------------- ListingItemService
\* findOne: the listing, or NotFoundException
ListingFound(items, id) == id \in DOMAIN items

\* destroy that leaves the related CryptocurrencyAddress behind
ListingItemServiceDestroy_keepsAddress(db, id) ==
    IF ~ListingFound(db.listingItems, id)
    THEN [thrown |-> TRUE, db |-> db]
    ELSE LET left == [i \in (DOMAIN db.listingItems) \ {id} |-> db.listingItems[i]]
         IN [thrown |-> FALSE,
             db |-> [db EXCEPT !.listingItems = left, !.removals = @ + 1]]

\* destroy(id): findOne, listingItemRepo.destroy, then the related
\* CryptocurrencyAddress when the listing has one
ListingItemServiceDestroy(db, id) ==
    IF ~ListingFound(db.listingItems, id)
    THEN [thrown |-> TRUE, db |-> db]
    ELSE LET listingItem == db.listingItems[id]
             left == [i \in (DOMAIN db.listingItems) \ {id} |-> db.listingItems[i]]
         IN [thrown |-> FALSE,
             db |-> [db EXCEPT !.listingItems = left,
                               !.removals = @ + 1,
                               !.cryptocurrencyAddresses =
                                   IF listingItem.cryptocurrencyAddressId # 0
                                   THEN @ \ {listingItem.cryptocurrencyAddressId}
                                   ELSE @]]

\* ------------------------------------------------- collaborators
\* VoteFactory.getModel: the row a vote message stands for
VoteRow(voteMessage, proposal, weight) ==
    [proposalId |-> proposal.id, voter |-> voteMessage.voter,
     optionId |-> voteMessage.optionId, weight |-> weight]

\* VoteService.findOneByVoterAndProposalId: ids of the matching rows
VotesByVoterAndProposalId(vs, voter, proposalId) ==
    {i \in 1..Len(vs) : vs[i].voter = voter /\ vs[i].proposalId = proposalId}

\* ProposalService.recalculateProposalResult: a full pass over the Vote rows
recalculateProposalResult(vs, proposal) ==
    [o \in proposal.options |->
        LET rows == {i \in 1..Len(vs) : vs[i].proposalId = proposal.id /\ vs[i].optionId = o}
        IN [voters |-> Cardinality(rows), weight |-> SumWeight(vs, rows)]]

\* ------------------------------------------------- VoteActionService
\* the number MINIMUM_REQUIRED_VOTES stands for
RequiredVotes(env) == IF env = Unset THEN DefaultMinimumRequiredVotes ELSE env

\* a / b of two non-negative numbers: NaN when both are 0
Divide(a, b) == [nan |-> (b = 0), num |-> a, den |-> b]

\* q > 0.5, false for NaN
GreaterThanHalf(q) == ~q.nan /\ 2 * q.num > q.den

\* shouldRemoveListingItem that takes a missing option result for one without votes
shouldRemoveListingItem_missingAsZero(proposalResult, env) ==
    LET noVotes == [voters |-> 0, weight |-> 0]
        okOptionResult == IF 0 \in DOMAIN proposalResult THEN proposalResult[0] ELSE noVotes
        removeOptionResult == IF 1 \in DOMAIN proposalResult THEN proposalResult[1] ELSE noVotes
        totalNumVoters == okOptionResult.voters + removeOptionResult.voters
    IN totalNumVoters > RequiredVotes(env)
       /\ GreaterThanHalf(Divide(removeOptionResult.weight,
                                 removeOptionResult.weight + okOptionResult.weight))

\* shouldRemoveListingItem that is content with the required number of voters
shouldRemoveListingItem_atLeast(proposalResult, env) ==
    LET hasOk == 0 \in DOMAIN proposalResult
        hasRemove == 1 \in DOMAIN proposalResult
    IN IF hasRemove /\ hasOk
       THEN LET okOptionResult == proposalResult[0]
                removeOptionResult == proposalResult[1]
                totalNumVoters == okOptionResult.voters + removeOptionResult.voters
            IN totalNumVoters >= RequiredVotes(env)
               /\ GreaterThanHalf(Divide(removeOptionResult.weight,
                                         removeOptionResult.weight + okOptionResult.weight))
       ELSE FALSE

shouldRemoveListingItem(proposalResult, env) ==
    LET hasOk == 0 \in DOMAIN proposalResult
        hasRemove == 1 \in DOMAIN proposalResult
    IN IF hasRemove /\ hasOk
       THEN LET okOptionResult == proposalResult[0]
                removeOptionResult == proposalResult[1]
                totalNumVoters == okOptionResult.voters + removeOptionResult.voters
            IN totalNumVoters > RequiredVotes(env)
               /\ GreaterThanHalf(Divide(removeOptionResult.weight,
                                         removeOptionResult.weight + okOptionResult.weight))
       ELSE FALSE

\* createOrUpdateVote that also gives every row the weight its voter has now
createOrUpdateVote_reweighsAll(vs, voteMessage, proposal, weight, saved) ==
    LET found == VotesByVoterAndProposalId(vs, voteMessage.voter, proposal.id)
        create == found = {}
        lastVote == IF create THEN -1 ELSE vs[Min(found)].optionId
        voteRequest == VoteRow(voteMessage, proposal, weight)
        reweighed(rows) ==
            [i \in DOMAIN rows |->
                IF rows[i].voter \in DOMAIN voteWeights
                THEN [rows[i] EXCEPT !.weight = voteWeights[rows[i].voter]]
                ELSE rows[i]]
    IN IF ~saved
       THEN [thrown |-> TRUE, votes |-> vs, upsert |-> "failed", lastVote |-> lastVote]
       ELSE IF create
       THEN [thrown |-> FALSE, votes |-> reweighed(Append(vs, voteRequest)),
             upsert |-> "create", lastVote |-> lastVote]
       ELSE [thrown |-> FALSE, votes |-> reweighed([vs EXCEPT ![Min(found)] = voteRequest]),
             upsert |-> "update", lastVote |-> lastVote]

\* createOrUpdateVote that looks for the last vote of the proposal, whoever cast it
createOrUpdateVote_lookupByProposal(vs, voteMessage, proposal, weight, saved) ==
    LET found == {i \in 1..Len(vs) : vs[i].proposalId = proposal.id}
        create == found = {}
        lastVote == IF create THEN -1 ELSE vs[Min(found)].optionId
        voteRequest == VoteRow(voteMessage, proposal, weight)
    IN IF ~saved
       THEN [thrown |-> TRUE, votes |-> vs, upsert |-> "failed", lastVote |-> lastVote]
       ELSE IF create
       THEN [thrown |-> FALSE, votes |-> Append(vs, voteRequest), upsert |-> "create",
             lastVote |-> lastVote]
       ELSE [thrown |-> FALSE, votes |-> [vs EXCEPT ![Min(found)] = voteRequest],
             upsert |-> "update", lastVote |-> lastVote]

\* createOrUpdateVote that never looks for the voter's last vote
createOrUpdateVote_alwaysCreate(vs, voteMessage, proposal, weight, saved) ==
    IF ~saved
    THEN [thrown |-> TRUE, votes |-> vs, upsert |-> "failed", lastVote |-> -1]
    ELSE [thrown |-> FALSE, votes |-> Append(vs, VoteRow(voteMessage, proposal, weight)),
          upsert |-> "create", lastVote |-> -1]

\* createOrUpdateVote whose update leaves the option of the last vote in place
createOrUpdateVote_keepsOption(vs, voteMessage, proposal, weight, saved) ==
    LET found == VotesByVoterAndProposalId(vs, voteMessage.voter, proposal.id)
        create == found = {}
        lastVote == IF create THEN -1 ELSE vs[Min(found)].optionId
        voteRequest == VoteRow(voteMessage, proposal, weight)
    IN IF ~saved
       THEN [thrown |-> TRUE, votes |-> vs, upsert |-> "failed", lastVote |-> lastVote]
       ELSE IF create
       THEN [thrown |-> FALSE, votes |-> Append(vs, voteRequest), upsert |-> "create",
             lastVote |-> lastVote]
       ELSE [thrown |-> FALSE,
             votes |-> [vs EXCEPT ![Min(found)] = [voteRequest EXCEPT !.optionId = lastVote]],
             upsert |-> "update", lastVote |-> lastVote]

createOrUpdateVote(vs, voteMessage, proposal, weight, saved) ==
    LET found == VotesByVoterAndProposalId(vs, voteMessage.voter, proposal.id)
        create == found = {}
        lastVote == IF create THEN -1 ELSE vs[Min(found)].optionId
        voteRequest == VoteRow(voteMessage, proposal, weight)
    IN IF ~saved
       THEN [thrown |-> TRUE, votes |-> vs, upsert |-> "failed", lastVote |-> lastVote]
       ELSE IF create
       THEN [thrown |-> FALSE, votes |-> Append(vs, voteRequest), upsert |-> "create",
             lastVote |-> lastVote]
       ELSE [thrown |-> FALSE, votes |-> [vs EXCEPT ![Min(found)] = voteRequest],
             upsert |-> "update", lastVote |-> lastVote]

\* the resolution that destroys the item without looking for it first
ResolveItemVote_destroysUnchecked(db, proposal, proposalResult, env) ==
    IF proposal.type = "ITEM_VOTE" /\ shouldRemoveListingItem(proposalResult, env)
    THEN LET d == ListingItemServiceDestroy(db, proposal.listingItemId)
         IN [thrown |-> d.thrown, db |-> d.db, verdict |-> "remove",
             destroyed |-> ~d.thrown]
    ELSE [thrown |-> FALSE, db |-> db,
          verdict |-> IF proposal.type = "ITEM_VOTE" THEN "keep" ELSE "none",
          destroyed |-> FALSE]

\* lines 159-175: the item is removed when the policy says so and it is found
\* ResolveItemVote that lets the NotFoundException of findOne through
ResolveItemVote_notFoundFails(db, proposal, proposalResult, env) ==
    IF proposal.type = "ITEM_VOTE" /\ shouldRemoveListingItem(proposalResult, env)
    THEN IF ListingFound(db.listingItems, proposal.listingItemId)
         THEN LET d == ListingItemServiceDestroy(db, proposal.listingItemId)
              IN [thrown |-> d.thrown, db |-> d.db, verdict |-> "remove",
                  destroyed |-> ~d.thrown]
         ELSE [thrown |-> TRUE, db |-> db, verdict |-> "remove", destroyed |-> FALSE]
    ELSE [thrown |-> FALSE, db |-> db,
          verdict |-> IF proposal.type = "ITEM_VOTE" THEN "keep" ELSE "none",
          destroyed |-> FALSE]

\* ResolveItemVote that applies the policy to a proposal of any type
ResolveItemVote_anyType(db, proposal, proposalResult, env) ==
    IF shouldRemoveListingItem(proposalResult, env)
    THEN IF ListingFound(db.listingItems, ListingId)
         THEN LET d == ListingItemServiceDestroy(db, ListingId)
              IN [thrown |-> d.thrown, db |-> d.db, verdict |-> "remove",
                  destroyed |-> ~d.thrown]
         ELSE [thrown |-> FALSE, db |-> db, verdict |-> "remove", destroyed |-> FALSE]
    ELSE [thrown |-> FALSE, db |-> db, verdict |-> "keep", destroyed |-> FALSE]

ResolveItemVote(db, proposal, proposalResult, env) ==
    IF proposal.type = "ITEM_VOTE" /\ shouldRemoveListingItem(proposalResult, env)
    THEN IF ListingFound(db.listingItems, proposal.listingItemId)
         THEN LET d == ListingItemServiceDestroy(db, proposal.listingItemId)
              IN [thrown |-> d.thrown, db |-> d.db, verdict |-> "remove",
                  destroyed |-> ~d.thrown]
         ELSE [thrown |-> FALSE, db |-> db, verdict |-> "remove", destroyed |-> FALSE]
    ELSE [thrown |-> FALSE, db |-> db,
          verdict |-> IF proposal.type = "ITEM_VOTE" THEN "keep" ELSE "none",
          destroyed |-> FALSE]

\* StoreVote that recalculates only for a row it created
StoreVote_talliesNewRowsOnly(db, ev, proposal, weight, fault) ==
    LET u == createOrUpdateVote(db.votes, ev, proposal, weight, fault # "upsert")
        out1 == [NoOutcome EXCEPT !.weight = weight, !.upsert = u.upsert,
                                  !.lastVote = u.lastVote]
    IN IF u.thrown
       THEN [db |-> db, out |-> [out1 EXCEPT !.kind = "thrown"]]
       ELSE IF fault = "recalculate"
       THEN [db |-> [db EXCEPT !.votes = u.votes],
             out |-> [out1 EXCEPT !.kind = "thrown", !.recalculated = "failed"]]
       ELSE LET proposalResult == IF u.upsert = "create"
                                  THEN recalculateProposalResult(u.votes, proposal)
                                  ELSE db.proposalResults[ev.proposalHash]
                db2 == [db EXCEPT !.votes = u.votes,
                                  !.proposalResults[ev.proposalHash] = proposalResult]
                r == ResolveItemVote(db2, proposal, proposalResult, db.minimumRequiredVotes)
            IN [db |-> r.db,
                out |-> [out1 EXCEPT !.kind = IF r.thrown THEN "thrown" ELSE "returned",
                                     !.status = IF r.thrown THEN "NONE" ELSE "PROCESSED",
                                     !.recalculated = "yes",
                                     !.verdict = r.verdict,
                                     !.destroyed = r.destroyed]]

\* StoreVote whose snapshot leaves out the options that no row selects
StoreVote_omitsUnvotedOptions(db, ev, proposal, weight, fault) ==
    LET u == createOrUpdateVote(db.votes, ev, proposal, weight, fault # "upsert")
        out1 == [NoOutcome EXCEPT !.weight = weight, !.upsert = u.upsert,
                                  !.lastVote = u.lastVote]
    IN IF u.thrown
       THEN [db |-> db, out |-> [out1 EXCEPT !.kind = "thrown"]]
       ELSE IF fault = "recalculate"
       THEN [db |-> [db EXCEPT !.votes = u.votes],
             out |-> [out1 EXCEPT !.kind = "thrown", !.recalculated = "failed"]]
       ELSE LET full == recalculateProposalResult(u.votes, proposal)
                proposalResult == [o \in {x \in DOMAIN full : full[x].voters > 0} |-> full[o]]
                db2 == [db EXCEPT !.votes = u.votes,
                                  !.proposalResults[ev.proposalHash] = proposalResult]
                r == ResolveItemVote(db2, proposal, proposalResult, db.minimumRequiredVotes)
            IN [db |-> r.db,
                out |-> [out1 EXCEPT !.kind = IF r.thrown THEN "thrown" ELSE "returned",
                                     !.status = IF r.thrown THEN "NONE" ELSE "PROCESSED",
                                     !.recalculated = "yes",
                                     !.verdict = r.verdict,
                                     !.destroyed = r.destroyed]]

\* StoreVote that recalculates from the rows read before the upsert
StoreVote_staleTally(db, ev, proposal, weight, fault) ==
    LET u == createOrUpdateVote(db.votes, ev, proposal, weight, fault # "upsert")
        out1 == [NoOutcome EXCEPT !.weight = weight, !.upsert = u.upsert,
                                  !.lastVote = u.lastVote]
    IN IF u.thrown
       THEN [db |-> db, out |-> [out1 EXCEPT !.kind = "thrown"]]
       ELSE IF fault = "recalculate"
       THEN [db |-> [db EXCEPT !.votes = u.votes],
             out |-> [out1 EXCEPT !.kind = "thrown", !.recalculated = "failed"]]
       ELSE LET proposalResult == recalculateProposalResult(db.votes, proposal)
                db2 == [db EXCEPT !.votes = u.votes,
                                  !.proposalResults[ev.proposalHash] = proposalResult]
                r == ResolveItemVote(db2, proposal, proposalResult, db.minimumRequiredVotes)
            IN [db |-> r.db,
                out |-> [out1 EXCEPT !.kind = IF r.thrown THEN "thrown" ELSE "returned",
                                     !.status = IF r.thrown THEN "NONE" ELSE "PROCESSED",
                                     !.recalculated = "yes",
                                     !.verdict = r.verdict,
                                     !.destroyed = r.destroyed]]

\* lines 153-175: upsert, recalculate, resolve
StoreVote(db, ev, proposal, weight, fault) ==
    LET u == createOrUpdateVote(db.votes, ev, proposal, weight, fault # "upsert")
        out1 == [NoOutcome EXCEPT !.weight = weight, !.upsert = u.upsert,
                                  !.lastVote = u.lastVote]
    IN IF u.thrown
       THEN [db |-> db, out |-> [out1 EXCEPT !.kind = "thrown"]]
       ELSE IF fault = "recalculate"
       THEN [db |-> [db EXCEPT !.votes = u.votes],
             out |-> [out1 EXCEPT !.kind = "thrown", !.recalculated = "failed"]]
       ELSE LET proposalResult == recalculateProposalResult(u.votes, proposal)
                db2 == [db EXCEPT !.votes = u.votes,
                                  !.proposalResults[ev.proposalHash] = proposalResult]
                r == ResolveItemVote(db2, proposal, proposalResult, db.minimumRequiredVotes)
            IN [db |-> r.db,
                out |-> [out1 EXCEPT !.kind = IF r.thrown THEN "thrown" ELSE "returned",
                                     !.status = IF r.thrown THEN "NONE" ELSE "PROCESSED",
                                     !.recalculated = "yes",
                                     !.verdict = r.verdict,
                                     !.destroyed = r.destroyed]]

\* the callback that asks for more than one day of retention
ProposalFound_retentionAboveOne(db, ev, proposal, weight, fault) ==
    LET weAreTheVoter == \E profile \in Profiles : profile = ev.voter
        processed == [NoOutcome EXCEPT !.kind = "returned", !.status = "PROCESSED"]
        thrown == [NoOutcome EXCEPT !.kind = "thrown"]
    IN IF weAreTheVoter
       THEN [db |-> db, out |-> processed]
       ELSE IF db.proposalResults[ev.proposalHash] = << >>
       THEN [db |-> db, out |-> thrown]
       ELSE IF ev.daysretention > 1
       THEN IF weight > 0
            THEN StoreVote(db, ev, proposal, weight, fault)
            ELSE [db |-> db, out |-> [processed EXCEPT !.weight = weight]]
       ELSE [db |-> db, out |-> thrown]

\* the callback that stores a vote whatever its weight
ProposalFound_noWeightGate(db, ev, proposal, weight, fault) ==
    LET weAreTheVoter == \E profile \in Profiles : profile = ev.voter
        processed == [NoOutcome EXCEPT !.kind = "returned", !.status = "PROCESSED"]
        thrown == [NoOutcome EXCEPT !.kind = "thrown"]
    IN IF weAreTheVoter
       THEN [db |-> db, out |-> processed]
       ELSE IF db.proposalResults[ev.proposalHash] = << >>
       THEN [db |-> db, out |-> thrown]
       ELSE IF ev.daysretention >= 1
       THEN StoreVote(db, ev, proposal, weight, fault)
       ELSE [db |-> db, out |-> thrown]

\* the callback without the check for our own profiles
ProposalFound_noSelfCheck(db, ev, proposal, weight, fault) ==
    LET processed == [NoOutcome EXCEPT !.kind = "returned", !.status = "PROCESSED"]
        thrown == [NoOutcome EXCEPT !.kind = "thrown"]
    IN IF db.proposalResults[ev.proposalHash] = << >>
       THEN [db |-> db, out |-> thrown]
       ELSE IF ev.daysretention >= 1
       THEN IF weight > 0
            THEN StoreVote(db, ev, proposal, weight, fault)
            ELSE [db |-> db, out |-> [processed EXCEPT !.weight = weight]]
       ELSE [db |-> db, out |-> thrown]

\* lines 116-184: the callback given to findOneByHash(...).then
ProposalFound(db, ev, proposal, weight, fault) ==
    LET weAreTheVoter == \E profile \in Profiles : profile = ev.voter
        processed == [NoOutcome EXCEPT !.kind = "returned", !.status = "PROCESSED"]
        thrown == [NoOutcome EXCEPT !.kind = "thrown"]
    IN IF weAreTheVoter
       THEN [db |-> db, out |-> processed]
       ELSE IF db.proposalResults[ev.proposalHash] = << >>
       THEN [db |-> db, out |-> thrown]
       ELSE IF ev.daysretention >= 1
       THEN IF weight > 0
            THEN StoreVote(db, ev, proposal, weight, fault)
            ELSE [db |-> db, out |-> [processed EXCEPT !.weight = weight]]
       ELSE [db |-> db, out |-> thrown]

\* lines 185-187: .catch(reason => WAITING) after the .then
CatchWaiting(r) ==
    IF r.out.kind = "thrown"
    THEN [r EXCEPT !.out.kind = "returned", !.out.status = "WAITING"]
    ELSE r

\* processVoteReceivedEvent that compares voter and sender inside the lookup chain
processVoteReceivedEvent_checksInsideChain(db, ev, weight, fault) ==
    IF ~ev.mpaction
    THEN [db |-> db, out |-> [NoOutcome EXCEPT !.kind = "thrown"]]
    ELSE IF ev.voter # ev.from
    THEN CatchWaiting([db |-> db, out |-> [NoOutcome EXCEPT !.kind = "thrown"]])
    ELSE IF db.proposals[ev.proposalHash].id = 0
    THEN CatchWaiting([db |-> db, out |-> [NoOutcome EXCEPT !.kind = "thrown"]])
    ELSE CatchWaiting(ProposalFound(db, ev, db.proposals[ev.proposalHash], weight, fault))

\* processVoteReceivedEvent without the .catch after the lookup
processVoteReceivedEvent_noCatch(db, ev, weight, fault) ==
    IF ~ev.mpaction
    THEN [db |-> db, out |-> [NoOutcome EXCEPT !.kind = "thrown"]]
    ELSE IF ev.voter # ev.from
    THEN [db |-> db, out |-> [NoOutcome EXCEPT !.kind = "thrown"]]
    ELSE IF db.proposals[ev.proposalHash].id = 0
    THEN [db |-> db, out |-> [NoOutcome EXCEPT !.kind = "thrown"]]
    ELSE ProposalFound(db, ev, db.proposals[ev.proposalHash], weight, fault)

processVoteReceivedEvent(db, ev, weight, fault) ==
    IF ~ev.mpaction
    THEN [db |-> db, out |-> [NoOutcome EXCEPT !.kind = "thrown"]]
    ELSE IF ev.voter # ev.from
    THEN [db |-> db, out |-> [NoOutcome EXCEPT !.kind = "thrown"]]
    ELSE IF db.proposals[ev.proposalHash].id = 0
    THEN CatchWaiting([db |-> db, out |-> [NoOutcome EXCEPT !.kind = "thrown"]])
    ELSE CatchWaiting(ProposalFound(db, ev, db.proposals[ev.proposalHash], weight, fault))

\* ------------------------------------------------------------ the state
\* VoteService.getVoteWeight is asked only on line 148; its answer is any weight
WeightsAsked(db, ev) ==
    IF processVoteReceivedEvent(db, ev, 0, "none").out.weight = -1 THEN {-1} ELSE Weights

\* createOrUpdateVote and recalculateProposalResult are reached, and may fail,
\* only for a vote with weight
FaultsPossible(db, ev, weight) ==
    IF weight > 0 THEN {"none", "upsert", "recalculate"} ELSE {"none"}

\* the event passed both checks of lines 105-112
Genuine(ev) == ev.mpaction /\ ev.voter = ev.from

\* the lookup of line 115 finds the proposal of the event
Known(ev) == ev.mpaction /\ proposals[ev.proposalHash].id # 0

ProposalOf(ev) == proposals[ev.proposalHash]

Database ==
    [proposals |-> proposals, votes |-> votes, proposalResults |-> proposalResults,
     listingItems |-> listingItems, cryptocurrencyAddresses |-> cryptocurrencyAddresses,
     removals |-> removals, minimumRequiredVotes |-> minimumRequiredVotes]

InitialListings ==
    { << >>,
      (ListingId :> [cryptocurrencyAddressId |-> AddressId]) }

Init ==
    /\ \E p \in {ItemVoteProposal, PublicVoteProposal} :
          /\ proposals = [h \in Hashes |-> IF h = "p1" THEN p ELSE UnknownProposal]
          /\ proposalResults =
                [h \in Hashes |-> IF h = "p1" THEN recalculateProposalResult(<< >>, p)
                                  ELSE << >>]
    /\ votes = << >>
    /\ listingItems \in InitialListings
    /\ cryptocurrencyAddresses =
          {listingItems[i].cryptocurrencyAddressId : i \in DOMAIN listingItems} \ {0}
    /\ removals = 0
    /\ minimumRequiredVotes = ConfiguredMinimumVotes
    /\ phase = "idle"
    /\ event = NoEvent
    /\ outcome = NoOutcome
    /\ reports = << >>
    /\ sends = << >>
    /\ deferred = NoEvent
    /\ handlers = << >>
    /\ voteWeights = << >>
    /\ replay = << >>
    /\ call = NoCall

\* lines 265-267: the listener is called with an event and awaits
\* processVoteReceivedEvent
ListenerCalled(ev) ==
    /\ phase = "idle"
    /\ \E weight \in WeightsAsked(Database, ev) :
          \E fault \in FaultsPossible(Database, ev, weight) :
             LET r == processVoteReceivedEvent(Database, ev, weight, fault)
             IN /\ votes' = r.db.votes
                /\ proposalResults' = r.db.proposalResults
                /\ listingItems' = r.db.listingItems
                /\ cryptocurrencyAddresses' = r.db.cryptocurrencyAddresses
                /\ removals' = r.db.removals
                /\ event' = ev
                /\ outcome' = r.out
    /\ phase' = "settled"
    /\ reports' = << >>
    /\ UNCHANGED <<proposals, minimumRequiredVotes>>

\* the listener is called with any event
VoteReceivedEvent ==
    /\ \E ev \in Events : ListenerCalled(ev)
    /\ UNCHANGED <<sends, deferred, handlers, voteWeights, replay, call>>

\* lines 268-270: .then(status => updateSmsgMessageStatus(event.smsgMessage, status))
ThenUpdateStatus ==
    /\ phase = "settled"
    /\ outcome.kind = "returned"
    /\ reports' = Append(reports, outcome.status)
    /\ phase' = "idle"
    /\ event' = NoEvent
    /\ outcome' = NoOutcome
    /\ UNCHANGED <<proposals, votes, proposalResults, listingItems, cryptocurrencyAddresses,
                   removals, minimumRequiredVotes, sends, deferred, handlers,
                   voteWeights, replay, call>>

\* a listener whose rejection is not reported
CatchUpdateStatus_unreported ==
    /\ phase = "settled"
    /\ outcome.kind = "thrown"
    /\ phase' = "idle"
    /\ event' = NoEvent
    /\ outcome' = NoOutcome
    /\ UNCHANGED <<proposals, votes, proposalResults, listingItems, cryptocurrencyAddresses,
                   removals, minimumRequiredVotes, reports, sends, deferred, handlers,
                   voteWeights, replay, call>>

\* lines 271-274: .catch(reason => updateSmsgMessageStatus(..., PARSING_FAILED))
CatchUpdateStatus ==
    /\ phase = "settled"
    /\ outcome.kind = "thrown"
    /\ reports' = Append(reports, "PARSING_FAILED")
    /\ phase' = "idle"
    /\ event' = NoEvent
    /\ outcome' = NoOutcome
    /\ UNCHANGED <<proposals, votes, proposalResults, listingItems, cryptocurrencyAddresses,
                   removals, minimumRequiredVotes, sends, deferred, handlers,
                   voteWeights, replay, call>>

Next == VoteReceivedEvent \/ ThenUpdateStatus \/ CatchUpdateStatus

Spec == Init /\ [][Next]_vars

\* the callbacks of a settled promise are run
FairSpec == Spec /\ WF_vars(ThenUpdateStatus) /\ WF_vars(CatchUpdateStatus)

\* --------------------------------------------- the policy on its own
VoterCounts == {0, 1, 2, 500, 501, 1000, 1001}

OptionResults == [voters : VoterCounts, weight : 0..MaxSnapshotWeight]

Snapshots ==
    [{0, 1} -> OptionResults] \cup [{0} -> OptionResults] \cup [{1} -> OptionResults]

PolicyInit ==
    /\ proposals = [h \in Hashes |-> IF h = "p1" THEN ItemVoteProposal ELSE UnknownProposal]
    /\ \E snapshot \in Snapshots :
          proposalResults = [h \in Hashes |-> IF h = "p1" THEN snapshot ELSE << >>]
    /\ minimumRequiredVotes \in {Unset, 0, ConfiguredMinimumVotes}
    /\ votes = << >>
    /\ listingItems = (ListingId :> [cryptocurrencyAddressId |-> AddressId])
    /\ cryptocurrencyAddresses = {AddressId}
    /\ removals = 0
    /\ phase = "snapshot"
    /\ event = NoEvent
    /\ outcome = NoOutcome
    /\ reports = << >>
    /\ sends = << >>
    /\ deferred = NoEvent
    /\ handlers = << >>
    /\ voteWeights = << >>
    /\ replay = << >>
    /\ call = NoCall

\* line 160: await this.shouldRemoveListingItem(proposalResult)
EvaluatePolicy ==
    /\ phase = "snapshot"
    /\ phase' = "verdict"
    /\ outcome' = [NoOutcome EXCEPT
                      !.verdict = IF shouldRemoveListingItem(proposalResults["p1"],
                                                            minimumRequiredVotes)
                                  THEN "remove" ELSE "keep"]
    /\ UNCHANGED <<proposals, votes, proposalResults, listingItems,
                   cryptocurrencyAddresses, removals, minimumRequiredVotes, event, reports,
                   sends, deferred, handlers, voteWeights, replay, call>>

PolicyNext == EvaluatePolicy

PolicySpec == PolicyInit /\ [][PolicyNext]_vars

\* ------------------------------------- votes that arrive before their proposal
\* the node knows no proposal yet
ArrivalInit ==
    /\ proposals = [h \in Hashes |-> UnknownProposal]
    /\ proposalResults = [h \in Hashes |-> << >>]
    /\ votes = << >>
    /\ listingItems = (ListingId :> [cryptocurrencyAddressId |-> AddressId])
    /\ cryptocurrencyAddresses = {AddressId}
    /\ removals = 0
    /\ minimumRequiredVotes = ConfiguredMinimumVotes
    /\ phase = "idle"
    /\ event = NoEvent
    /\ outcome = NoOutcome
    /\ reports = << >>
    /\ sends = << >>
    /\ deferred = NoEvent
    /\ handlers = << >>
    /\ voteWeights = << >>
    /\ replay = << >>
    /\ call = NoCall

\* the proposal message of the flagged listing is ingested: the proposal is
\* stored with a result for each of its options
ProposalReceived ==
    /\ phase = "idle"
    /\ proposals["p1"].id = 0
    /\ proposals' = [proposals EXCEPT !["p1"] = ItemVoteProposal]
    /\ proposalResults' =
          [proposalResults EXCEPT
              !["p1"] = recalculateProposalResult(votes, ItemVoteProposal)]
    /\ UNCHANGED <<votes, listingItems, cryptocurrencyAddresses, removals,
                   minimumRequiredVotes, phase, event, outcome, reports,
                   sends, deferred, handlers, voteWeights, replay, call>>

\* the remote voter whose early vote is followed
FollowedVoter == "r1"

\* a vote of the followed voter that can be stored once its proposal is known
Storable(ev) ==
    Genuine(ev) /\ ev.voter = FollowedVoter /\ ev.daysretention >= 1

\* the listener is called with any event, a first time or again; the first
\* storable vote answered WAITING because the lookup of line 115 failed is
\* remembered
VoteArrives ==
    /\ \E ev \in Events :
          /\ ListenerCalled(ev)
          /\ deferred' = IF /\ deferred = NoEvent /\ Storable(ev)
                            /\ ev.proposalHash = "p1" /\ ~Known(ev)
                            /\ outcome'.status = "WAITING"
                         THEN ev ELSE deferred
    /\ UNCHANGED <<sends, handlers, voteWeights, replay, call>>

ArrivalNext == ProposalReceived \/ VoteArrives \/ ThenUpdateStatus \/ CatchUpdateStatus

ArrivalSpec == ArrivalInit /\ [][ArrivalNext]_vars

\* ------------------------------------- votes given again after a failure
\* the item vote is known and its listing is there
RedeliveryInit ==
    /\ proposals = [h \in Hashes |-> IF h = "p1" THEN ItemVoteProposal ELSE UnknownProposal]
    /\ proposalResults =
          [h \in Hashes |-> IF h = "p1" THEN recalculateProposalResult(<< >>, ItemVoteProposal)
                            ELSE << >>]
    /\ votes = << >>
    /\ listingItems = (ListingId :> [cryptocurrencyAddressId |-> AddressId])
    /\ cryptocurrencyAddresses = {AddressId}
    /\ removals = 0
    /\ minimumRequiredVotes = ConfiguredMinimumVotes
    /\ phase = "idle"
    /\ event = NoEvent
    /\ outcome = NoOutcome
    /\ reports = << >>
    /\ sends = << >>
    /\ deferred = NoEvent
    /\ handlers = << >>
    /\ voteWeights = << >>
    /\ replay = << >>
    /\ call = NoCall

\* the vote was saved and recalculateProposalResult failed (lines 153-156)
PartlyStored(out) == out.upsert \in {"create", "update"} /\ out.recalculated = "failed"

\* the listener is called with any event, a first time or again; the first
\* vote of the followed voter that failed after its upsert is remembered
VoteDelivered ==
    /\ \E ev \in Events :
          /\ ListenerCalled(ev)
          /\ deferred' = IF /\ deferred = NoEvent /\ ev.voter = FollowedVoter
                            /\ PartlyStored(outcome')
                         THEN ev ELSE deferred
    /\ UNCHANGED <<sends, handlers, voteWeights, replay, call>>

RedeliveryNext == VoteDelivered \/ ThenUpdateStatus \/ CatchUpdateStatus

RedeliverySpec == RedeliveryInit /\ [][RedeliveryNext]_vars

\* ------------------------------------- the same votes in two orders
\* one vote of each voter for the proposal that is known, with any options
VoteSets ==
    {S \in SUBSET {ev \in GenuineEvents : /\ ev.proposalHash = "p1"
                                          /\ ev.daysretention = 1
                                          /\ ev.optionId \in ItemVoteProposal.options} :
        \A a \in Addresses : Cardinality({ev \in S : ev.voter = a}) = 1}

\* the weights getVoteWeight answers, the same whenever it is asked
FixedWeights == [RemoteAddresses -> 1..MaxWeight]

\* two nodes with the same tables are to handle the same votes: this node, and
\* the node of replay
OrderInit ==
    /\ proposals = [h \in Hashes |-> IF h = "p1" THEN ItemVoteProposal ELSE UnknownProposal]
    /\ proposalResults =
          [h \in Hashes |-> IF h = "p1" THEN recalculateProposalResult(<< >>, ItemVoteProposal)
                            ELSE << >>]
    /\ votes = << >>
    /\ listingItems = (ListingId :> [cryptocurrencyAddressId |-> AddressId])
    /\ cryptocurrencyAddresses = {AddressId}
    /\ removals = 0
    /\ minimumRequiredVotes = ConfiguredMinimumVotes
    /\ phase = "idle"
    /\ event = NoEvent
    /\ outcome = NoOutcome
    /\ reports = << >>
    /\ sends = << >>
    /\ deferred = NoEvent
    /\ handlers = << >>
    /\ voteWeights \in FixedWeights
    /\ \E S \in VoteSets : replay = [here |-> S, there |-> S, db |-> Database]
    /\ call = NoCall

\* the answer of getVoteWeight, when processVoteReceivedEvent asks for it
WeightNow(db, ev) ==
    IF WeightsAsked(db, ev) = {-1} THEN -1 ELSE voteWeights[ev.voter]

\* this node handles one of the votes it has not handled yet
HandledHere ==
    /\ \E ev \in replay.here :
          LET r == processVoteReceivedEvent(Database, ev, WeightNow(Database, ev), "none")
          IN /\ votes' = r.db.votes
             /\ proposalResults' = r.db.proposalResults
             /\ listingItems' = r.db.listingItems
             /\ cryptocurrencyAddresses' = r.db.cryptocurrencyAddresses
             /\ removals' = r.db.removals
             /\ replay' = [replay EXCEPT !.here = @ \ {ev}]
    /\ UNCHANGED <<proposals, minimumRequiredVotes, phase, event, outcome, reports,
                   sends, deferred, handlers, voteWeights, call>>

\* the other node handles one of the votes it has not handled yet
HandledThere ==
    /\ \E ev \in replay.there :
          LET r == processVoteReceivedEvent(replay.db, ev, WeightNow(replay.db, ev), "none")
          IN replay' = [replay EXCEPT !.there = @ \ {ev}, !.db = r.db]
    /\ UNCHANGED <<proposals, votes, proposalResults, listingItems, cryptocurrencyAddresses,
                   removals, minimumRequiredVotes, phase, event, outcome, reports,
                   sends, deferred, handlers, voteWeights, call>>

OrderNext == HandledHere \/ HandledThere

OrderSpec == OrderInit /\ [][OrderNext]_vars

\* ------------------------------------- a weight oracle that changes
\* the weight getVoteWeight answers for each remote voter, at this moment
OracleWeights == [RemoteAddresses -> Weights]

OracleInit ==
    /\ proposals = [h \in Hashes |-> IF h = "p1" THEN ItemVoteProposal ELSE UnknownProposal]
    /\ proposalResults =
          [h \in Hashes |-> IF h = "p1" THEN recalculateProposalResult(<< >>, ItemVoteProposal)
                            ELSE << >>]
    /\ votes = << >>
    /\ listingItems = (ListingId :> [cryptocurrencyAddressId |-> AddressId])
    /\ cryptocurrencyAddresses = {AddressId}
    /\ removals = 0
    /\ minimumRequiredVotes = ConfiguredMinimumVotes
    /\ phase = "idle"
    /\ event = NoEvent
    /\ outcome = NoOutcome
    /\ reports = << >>
    /\ sends = << >>
    /\ deferred = NoEvent
    /\ handlers = << >>
    /\ voteWeights \in OracleWeights
    /\ replay = << >>
    /\ call = NoCall

\* the balance behind the weight of a voter changes; no vote event is involved
WeightChanges ==
    /\ \E a \in RemoteAddresses, w \in Weights :
          /\ w # voteWeights[a]
          /\ voteWeights' = [voteWeights EXCEPT ![a] = w]
    /\ UNCHANGED <<proposals, votes, proposalResults, listingItems, cryptocurrencyAddresses,
                   removals, minimumRequiredVotes, phase, event, outcome, reports,
                   sends, deferred, handlers, replay, call>>

\* the listener is called with a storable vote for the proposal that is known;
\* line 148 gets the weight the voter has now
VoteWeighed ==
    /\ \E ev \in {e \in GenuineEvents : e.proposalHash = "p1" /\ e.daysretention = 1
                                          /\ e.optionId \in ItemVoteProposal.options} :
          /\ ListenerCalled(ev)
          /\ outcome'.weight \in {-1} \cup {voteWeights[a] : a \in {ev.voter} \cap RemoteAddresses}
    /\ UNCHANGED <<sends, deferred, handlers, voteWeights, replay, call>>

OracleNext == WeightChanges \/ VoteWeighed \/ ThenUpdateStatus

OracleSpec == OracleInit /\ [][OracleNext]_vars

\* ------------------------------------- ListingItemService on its own
MaxListings == 3

ListingIds == 1..MaxListings

\* the id of the CryptocurrencyAddress of a listing that has one
AddressOf(id) == AddressId + id

\* any of the listings may be there, with a CryptocurrencyAddress under its
\* ItemPrice or without (0); the address AddressId belongs to no listing
ListingInit ==
    /\ proposals = [h \in Hashes |-> UnknownProposal]
    /\ proposalResults = [h \in Hashes |-> << >>]
    /\ votes = << >>
    /\ \E present \in SUBSET ListingIds :
          listingItems \in [present -> {[cryptocurrencyAddressId |-> 0]}
                                       \cup {[cryptocurrencyAddressId |-> AddressOf(i)] :
                                                 i \in ListingIds}]
    /\ \A i \in DOMAIN listingItems :
          listingItems[i].cryptocurrencyAddressId \in {0, AddressOf(i)}
    /\ cryptocurrencyAddresses =
          {AddressId} \cup ({listingItems[i].cryptocurrencyAddressId :
                                i \in DOMAIN listingItems} \ {0})
    /\ removals = 0
    /\ minimumRequiredVotes = ConfiguredMinimumVotes
    /\ phase = "idle"
    /\ event = NoEvent
    /\ outcome = NoOutcome
    /\ reports = << >>
    /\ sends = << >>
    /\ deferred = NoEvent
    /\ handlers = << >>
    /\ voteWeights = << >>
    /\ replay = << >>
    /\ call = NoCall

\* ListingItemService.destroy(id)
Destroy ==
    /\ \E id \in ListingIds :
          LET d == ListingItemServiceDestroy(Database, id)
          IN /\ listingItems' = d.db.listingItems
             /\ cryptocurrencyAddresses' = d.db.cryptocurrencyAddresses
             /\ removals' = d.db.removals
             /\ call' = [op |-> "destroy", id |-> id, thrown |-> d.thrown]
    /\ UNCHANGED <<proposals, votes, proposalResults, minimumRequiredVotes, phase, event,
                   outcome, reports, sends, deferred, handlers, voteWeights, replay>>

\* ListingItemService.findOne(id)
FindOne ==
    /\ \E id \in ListingIds :
          call' = [op |-> "findOne", id |-> id, thrown |-> ~ListingFound(listingItems, id)]
    /\ UNCHANGED <<proposals, votes, proposalResults, listingItems, cryptocurrencyAddresses,
                   removals, minimumRequiredVotes, phase, event, outcome, reports,
                   sends, deferred, handlers, voteWeights, replay>>

ListingNext == Destroy \/ FindOne

ListingSpec == ListingInit /\ [][ListingNext]_vars

\* ------------------------------------------------- send
\* (proposal.expiredAt - now) / 1000 / 60 / 60 / 24
MsPerSecond == 1000
SecondsPerMinute == 60
MinutesPerHour == 60
HoursPerDay == 24
MsPerDay == MsPerSecond * SecondsPerMinute * MinutesPerHour * HoursPerDay

MaxSends == 2

\* marketplace.address
Markets == {"market"}

\* new Date().getTime() and proposal.expiredAt, in ms: on a day, one or two ms
\* off it
Nows == {MsPerDay, MsPerDay + 1}
Expiries == {MsPerDay, MsPerDay + 2, 2 * MsPerDay, 2 * MsPerDay + 1}

\* the quotient rounded to the nearest whole number instead of up
Ceil_roundsNearest(a, b) == (2 * a + b) \div (2 * b)

\* the quotient rounded down instead of up
Ceil_roundsDown(a, b) == a \div b

\* Math.ceil(a / b) for b > 0
Ceil(a, b) == -((-a) \div b)

\* send that asks smsgSend to broadcast
send_broadcasts(proposalHash, expiredAt, optionId, senderProfile, marketplace, now) ==
    [senderProfile |-> senderProfile, marketplace |-> marketplace,
     expiredAt |-> expiredAt, now |-> now,
     from |-> senderProfile, to |-> marketplace,
     voter |-> senderProfile, proposalHash |-> proposalHash, optionId |-> optionId,
     broadcastFlag |-> TRUE,
     daysretention |-> Ceil(expiredAt - now, MsPerDay)]

\* lines 70-93: the vote message of VoteFactory.getMessage and the arguments of
\* smsgSend (from, to, message, flag, daysretention), with the inputs of the call
send(proposalHash, expiredAt, optionId, senderProfile, marketplace, now) ==
    [senderProfile |-> senderProfile, marketplace |-> marketplace,
     expiredAt |-> expiredAt, now |-> now,
     from |-> senderProfile, to |-> marketplace,
     voter |-> senderProfile, proposalHash |-> proposalHash, optionId |-> optionId,
     broadcastFlag |-> FALSE,
     daysretention |-> Ceil(expiredAt - now, MsPerDay)]

\* a Vote table that one remote vote has been stored in, or none
CastInit ==
    /\ proposals = [h \in Hashes |-> IF h = "p1" THEN ItemVoteProposal ELSE UnknownProposal]
    /\ votes \in { << >>,
                   <<VoteRow([voter |-> "r1", optionId |-> 0], ItemVoteProposal, 1)>> }
    /\ proposalResults =
          [h \in Hashes |-> IF h = "p1" THEN recalculateProposalResult(votes, ItemVoteProposal)
                            ELSE << >>]
    /\ listingItems = (ListingId :> [cryptocurrencyAddressId |-> AddressId])
    /\ cryptocurrencyAddresses = {AddressId}
    /\ removals = 0
    /\ minimumRequiredVotes = ConfiguredMinimumVotes
    /\ phase = "idle"
    /\ event = NoEvent
    /\ outcome = NoOutcome
    /\ reports = << >>
    /\ sends = << >>
    /\ deferred = NoEvent
    /\ handlers = << >>
    /\ voteWeights = << >>
    /\ replay = << >>
    /\ call = NoCall

\* a local profile casts a vote for a proposal that is known
Send ==
    /\ Len(sends) < MaxSends
    /\ \E h \in Hashes, senderProfile \in Profiles, marketplace \in Markets,
          expiredAt \in Expiries, now \in Nows :
          /\ proposals[h].id # 0
          /\ \E proposalOption \in proposals[h].options :
                sends' = Append(sends, send(h, expiredAt, proposalOption, senderProfile,
                                            marketplace, now))
    /\ UNCHANGED <<proposals, votes, proposalResults, listingItems, cryptocurrencyAddresses,
                   removals, minimumRequiredVotes, phase, event, outcome, reports,
                   deferred, handlers, voteWeights, replay, call>>

\* the transport gives a vote that was sent back to the node that sent it
OwnVoteReceived ==
    /\ \E i \in 1..Len(sends) :
          ListenerCalled([mpaction |-> TRUE, voter |-> sends[i].voter, from |-> sends[i].from,
                          proposalHash |-> sends[i].proposalHash,
                          optionId |-> sends[i].optionId,
                          daysretention |-> sends[i].daysretention])
    /\ UNCHANGED <<sends, deferred, handlers, voteWeights, replay, call>>

\* a vote that was sent has an mpaction and its sender for voter: the promise of
\* the listener is not rejected
CastNext == Send \/ OwnVoteReceived \/ ThenUpdateStatus

CastSpec == CastInit /\ [][CastNext]_vars

\* ------------------------------------- listener calls that interleave
\* emit does not wait for the promise of the async listener (line 265): another
\* event is handled while a call is suspended at an await. ConcurrentSpec has one
\* step per await that reads or writes a table, with collaborators that do not
\* fail.
MaxInFlight == 2
MaxEvents == 3

HandlerIds == 1..MaxInFlight

\* pc: the await the call is suspended at; lastVote: the id of the row found on
\* line 234, 0 for none; tally: the result of recalculateProposalResult
IdleHandler == [pc |-> "idle", ev |-> NoEvent, weight |-> -1, lastVote |-> 0,
                tally |-> << >>, kind |-> "none", status |-> "NONE"]

\* votes with daysretention 1 for the proposal that is known
ConcurrentEvents ==
    {ev \in GenuineEvents : ev.proposalHash = "p1" /\ ev.daysretention = 1}

InFlight == {h \in DOMAIN handlers : handlers[h].pc # "idle"}

ConcurrentInit ==
    /\ proposals = [h \in Hashes |-> IF h = "p1" THEN ItemVoteProposal ELSE UnknownProposal]
    /\ proposalResults =
          [h \in Hashes |-> IF h = "p1" THEN recalculateProposalResult(<< >>, ItemVoteProposal)
                            ELSE << >>]
    /\ votes = << >>
    /\ listingItems = (ListingId :> [cryptocurrencyAddressId |-> AddressId])
    /\ cryptocurrencyAddresses = {AddressId}
    /\ removals = 0
    /\ minimumRequiredVotes = ConfiguredMinimumVotes
    /\ phase = "idle"
    /\ event = NoEvent
    /\ outcome = NoOutcome
    /\ reports = << >>
    /\ sends = << >>
    /\ deferred = NoEvent
    /\ handlers = [h \in HandlerIds |-> IdleHandler]
    /\ voteWeights = << >>
    /\ replay = << >>
    /\ call = NoCall

\* what a step of a listener call leaves alone, the tables apart
ConcurrentFrame == UNCHANGED <<proposals, minimumRequiredVotes, phase, event, outcome,
                               sends, deferred, voteWeights, replay, call>>

Completed(h, kind, status) ==
    [handlers EXCEPT ![h].pc = "settled", ![h].kind = kind, ![h].status = status]

\* lines 103-152: the checks, the lookup of the proposal (which no call writes)
\* and the weight; a vote with weight goes on to createOrUpdateVote
Emitted(h, ev) ==
    /\ handlers[h].pc = "idle"
    /\ \A g \in HandlerIds : g < h => handlers[g].pc # "idle"
    /\ Len(reports) + Cardinality(InFlight) < MaxEvents
    /\ \E weight \in WeightsAsked(Database, ev) :
          LET r == processVoteReceivedEvent(Database, ev, weight, "none")
          IN handlers' =
                [handlers EXCEPT ![h] =
                    IF weight > 0
                    THEN [IdleHandler EXCEPT !.pc = "find", !.ev = ev, !.weight = weight]
                    ELSE [IdleHandler EXCEPT !.pc = "settled", !.ev = ev, !.weight = weight,
                                             !.kind = r.out.kind, !.status = r.out.status]]
    /\ UNCHANGED <<votes, proposalResults, listingItems, cryptocurrencyAddresses,
                   removals, reports>>
    /\ ConcurrentFrame

\* line 234: await voteService.findOneByVoterAndProposalId
FindLastVote(h) ==
    /\ handlers[h].pc = "find"
    /\ LET found == VotesByVoterAndProposalId(votes, handlers[h].ev.voter,
                                              ProposalOf(handlers[h].ev).id)
       IN handlers' = [handlers EXCEPT ![h].pc = "save",
                                       ![h].lastVote = IF found = {} THEN 0 ELSE Min(found)]
    /\ UNCHANGED <<votes, proposalResults, listingItems, cryptocurrencyAddresses,
                   removals, reports>>
    /\ ConcurrentFrame

\* lines 239-259: await voteService.create, or update of the row found
SaveVote(h) ==
    /\ handlers[h].pc = "save"
    /\ LET create == handlers[h].lastVote = 0
           voteRequest == VoteRow(handlers[h].ev, ProposalOf(handlers[h].ev),
                                  handlers[h].weight)
       IN votes' = IF create THEN Append(votes, voteRequest)
                   ELSE [votes EXCEPT ![handlers[h].lastVote] = voteRequest]
    /\ handlers' = [handlers EXCEPT ![h].pc = "tally"]
    /\ UNCHANGED <<proposalResults, listingItems, cryptocurrencyAddresses, removals, reports>>
    /\ ConcurrentFrame

\* line 156, first half: recalculateProposalResult reads the rows
ReadVotes(h) ==
    /\ handlers[h].pc = "tally"
    /\ handlers' = [handlers EXCEPT
                       ![h].pc = "snapshot",
                       ![h].tally = recalculateProposalResult(votes, ProposalOf(handlers[h].ev))]
    /\ UNCHANGED <<votes, proposalResults, listingItems, cryptocurrencyAddresses,
                   removals, reports>>
    /\ ConcurrentFrame

\* line 156, second half, and lines 159-160: the snapshot is replaced and
\* returned, and shouldRemoveListingItem is asked about it
WriteSnapshot(h) ==
    /\ handlers[h].pc = "snapshot"
    /\ proposalResults' = [proposalResults EXCEPT
                              ![handlers[h].ev.proposalHash] = handlers[h].tally]
    /\ handlers' =
          IF /\ ProposalOf(handlers[h].ev).type = "ITEM_VOTE"
             /\ shouldRemoveListingItem(handlers[h].tally, minimumRequiredVotes)
          THEN [handlers EXCEPT ![h].pc = "findListing"]
          ELSE Completed(h, "returned", "PROCESSED")
    /\ UNCHANGED <<votes, listingItems, cryptocurrencyAddresses, removals, reports>>
    /\ ConcurrentFrame

\* lines 163-170: await listingItemService.findOne(...).catch(ignore)
FindListing(h) ==
    /\ handlers[h].pc = "findListing"
    /\ handlers' =
          IF ListingFound(listingItems, ProposalOf(handlers[h].ev).listingItemId)
          THEN [handlers EXCEPT ![h].pc = "destroy"]
          ELSE Completed(h, "returned", "PROCESSED")
    /\ UNCHANGED <<votes, proposalResults, listingItems, cryptocurrencyAddresses,
                   removals, reports>>
    /\ ConcurrentFrame

\* lines 171-187: await listingItemService.destroy; its NotFoundException ends
\* in the .catch of line 185
DestroyListing(h) ==
    /\ handlers[h].pc = "destroy"
    /\ LET d == ListingItemServiceDestroy(Database, ProposalOf(handlers[h].ev).listingItemId)
       IN /\ listingItems' = d.db.listingItems
          /\ cryptocurrencyAddresses' = d.db.cryptocurrencyAddresses
          /\ removals' = d.db.removals
          /\ handlers' = Completed(h, "returned",
                                   IF d.thrown THEN "WAITING" ELSE "PROCESSED")
    /\ UNCHANGED <<votes, proposalResults, reports>>
    /\ ConcurrentFrame

\* lines 268-274: the status is given to updateSmsgMessageStatus
StatusUpdated(h) ==
    /\ handlers[h].pc = "settled"
    /\ reports' = Append(reports, IF handlers[h].kind = "returned" THEN handlers[h].status
                                  ELSE "PARSING_FAILED")
    /\ handlers' = [handlers EXCEPT ![h] = IdleHandler]
    /\ UNCHANGED <<votes, proposalResults, listingItems, cryptocurrencyAddresses, removals>>
    /\ ConcurrentFrame

ConcurrentNext ==
    \E h \in HandlerIds :
       \/ \E ev \in ConcurrentEvents : Emitted(h, ev)
       \/ FindLastVote(h)
       \/ SaveVote(h)
       \/ ReadVotes(h)
       \/ WriteSnapshot(h)
       \/ FindListing(h)
       \/ DestroyListing(h)
       \/ StatusUpdated(h)

ConcurrentSpec == ConcurrentInit /\ [][ConcurrentNext]_vars

\* ------------------------------------------------------------ properties
\* a step of the listener that handles an event to the end
Settles == phase = "idle" /\ phase' = "settled"

Settled == phase = "settled"

RowsOfProposal(vs, proposalId) == {i \in 1..Len(vs) : vs[i].proposalId = proposalId}

\* the snapshot of the proposal is the tally of its current rows
InSync(h) == proposalResults[h] = recalculateProposalResult(votes, proposals[h])

RECURSIVE SumVoters(_, _)
SumVoters(res, opts) ==
    IF opts = {} THEN 0
    ELSE LET o == Min(opts) IN res[o].voters + SumVoters(res, opts \ {o})

RECURSIVE SumWeights(_, _)
SumWeights(res, opts) ==
    IF opts = {} THEN 0
    ELSE LET o == Min(opts) IN res[o].weight + SumWeights(res, opts \ {o})

\* the ingestion wrote nothing
NothingWritten ==
    /\ votes' = votes
    /\ proposalResults' = proposalResults
    /\ listingItems' = listingItems
    /\ cryptocurrencyAddresses' = cryptocurrencyAddresses

\* C1: a well-formed, non-spoofed event whose proposal hash is not known locally
\* returns WAITING and changes neither the votes, the snapshots nor the listings.
C1_MissingProposalWaits ==
    [][(Settles /\ Genuine(event') /\ ~Known(event'))
        => (outcome'.kind = "returned" /\ outcome'.status = "WAITING" /\ NothingWritten)]_vars

C1_Witness ==
    /\ Settled /\ Genuine(event) /\ ~Known(event)
    /\ event.voter \in RemoteAddresses
    /\ outcome.status = "WAITING"
    /\ Len(votes) > 0

\* C2 as stated: every event whose voter is one of the local profiles writes
\* nothing, recalculates and resolves nothing, and ends PROCESSED.
C2_Original_SelfVoteProcessed ==
    [][(Settles /\ event'.voter \in Profiles)
        => /\ NothingWritten
           /\ outcome'.upsert = "none" /\ outcome'.recalculated = "no"
           /\ outcome'.verdict = "none"
           /\ outcome'.kind = "returned" /\ outcome'.status = "PROCESSED"]_vars

\* C2 amended: an event whose voter is one of the local profiles writes nothing
\* and recalculates and resolves nothing; it ends PROCESSED when it is not
\* spoofed and its proposal is known locally.
C2_SelfVoteSkipped ==
    [][(Settles /\ event'.voter \in Profiles)
        => /\ NothingWritten
           /\ outcome'.upsert = "none" /\ outcome'.recalculated = "no"
           /\ outcome'.verdict = "none"
           /\ (Genuine(event') /\ Known(event'))
                 => (outcome'.kind = "returned" /\ outcome'.status = "PROCESSED")]_vars

C2_Witness ==
    /\ Settled /\ event.voter \in Profiles /\ Genuine(event) /\ Known(event)
    /\ event.daysretention >= 1
    /\ outcome.status = "PROCESSED"
    /\ Len(votes) > 0

\* the event is stored: upserted and the snapshot recalculated
Stored(out) == out.upsert \in {"create", "update"} /\ out.recalculated = "yes"

\* C3: when the row of (proposal, voter) and the snapshot are what a vote event
\* left behind, processing the same event (same option, same weight) again leaves
\* exactly one row for (proposal, voter) and the same snapshot.
C3_IdempotentUpsert ==
    [][(/\ Settles /\ Genuine(event') /\ Known(event') /\ Stored(outcome')
        /\ InSync(event'.proposalHash)
        /\ \E i \in VotesByVoterAndProposalId(votes, event'.voter, ProposalOf(event').id) :
              votes[i] = VoteRow(event', ProposalOf(event'), outcome'.weight))
        => /\ Cardinality(VotesByVoterAndProposalId(votes', event'.voter,
                                                    ProposalOf(event').id)) = 1
           /\ votes' = votes
           /\ proposalResults' = proposalResults]_vars

C3_Witness ==
    /\ Settled /\ Stored(outcome) /\ outcome.upsert = "update"
    /\ outcome.lastVote = event.optionId
    /\ outcome.status = "PROCESSED"
    /\ Len(votes) = 2

\* C4: a remote voter with weight whose row says option 0 votes option 1 for the
\* same known proposal: one row is left for (proposal, voter), it says option 1,
\* and the snapshot has one voter less under option 0 and one more under option 1.
C4_VoteOverwrite ==
    [][(/\ Settles /\ Genuine(event') /\ Known(event')
        /\ event'.voter \notin Profiles /\ event'.daysretention >= 1
        /\ outcome'.weight > 0
        /\ outcome'.upsert # "failed" /\ outcome'.recalculated # "failed"
        /\ event'.optionId = 1
        /\ InSync(event'.proposalHash)
        /\ \E i \in VotesByVoterAndProposalId(votes, event'.voter, ProposalOf(event').id) :
              votes[i].optionId = 0)
        => LET h == event'.proposalHash
               rows == VotesByVoterAndProposalId(votes', event'.voter, ProposalOf(event').id)
           IN /\ Cardinality(rows) = 1
              /\ \A i \in rows : votes'[i].optionId = 1 /\ votes'[i].weight = outcome'.weight
              /\ outcome'.upsert = "update"
              /\ proposalResults'[h][0].voters = proposalResults[h][0].voters - 1
              /\ proposalResults'[h][1].voters = proposalResults[h][1].voters + 1]_vars

C4_Witness ==
    /\ Settled /\ Stored(outcome) /\ outcome.upsert = "update"
    /\ outcome.lastVote = 0 /\ event.optionId = 1
    /\ outcome.status = "PROCESSED"
    /\ Len(votes) = 2

RemovalDue(results, h) ==
    /\ proposals[h].type = "ITEM_VOTE"
    /\ results[h][0].voters + results[h][1].voters > minimumRequiredVotes
    /\ results[h][1].weight > results[h][0].weight

\* C7: the listing is destroyed at most once; the event that brings an item vote
\* to more voters than required with more remove weight destroys the listing
\* when it is there, and every later event that finds the vote so ends PROCESSED
\* without destroying anything.
C7_RemovalFiresOnce ==
    /\ [](removals <= 1)
    /\ [][(Settles /\ Genuine(event') /\ Known(event') /\ Stored(outcome')
            /\ RemovalDue(proposalResults', event'.proposalHash))
           => /\ outcome'.verdict = "remove"
              /\ outcome'.kind = "returned" /\ outcome'.status = "PROCESSED"
              /\ ~ListingFound(listingItems', ListingId)
              /\ IF ListingFound(listingItems, ListingId)
                 THEN outcome'.destroyed /\ removals = 0 /\ removals' = 1
                 ELSE ~outcome'.destroyed /\ removals' = removals]_vars

C7_Witness ==
    /\ Settled /\ Stored(outcome) /\ RemovalDue(proposalResults, event.proposalHash)
    /\ ~outcome.destroyed /\ removals = 1
    /\ outcome.status = "PROCESSED"

Statuses == {"PROCESSED", "WAITING", "PARSING_FAILED"}

C9_FailureReportedAsParsingFailed ==
    [][(/\ phase = "settled" /\ phase' = "idle" /\ Known(event)
        /\ (outcome.upsert = "failed" \/ outcome.recalculated = "failed"))
       => reports' = <<"PARSING_FAILED">>]_vars

\* C10: a genuine event of a remote voter for a known proposal with daysretention
\* below 1 ends PROCESSED and changes neither the votes nor the snapshot.
C10_BelowRetentionProcessed ==
    [][(/\ Settles /\ Genuine(event') /\ Known(event')
        /\ event'.voter \notin Profiles /\ event'.daysretention < 1)
       => /\ outcome'.kind = "returned" /\ outcome'.status = "PROCESSED"
          /\ votes' = votes
          /\ proposalResults' = proposalResults]_vars

\* C11: a genuine event of a remote voter for a known proposal whose weight is
\* resolved as 0 ends PROCESSED and changes neither the votes nor the snapshot;
\* so every row of the Vote table has a weight above 0.
C11_ZeroWeightNeverStored ==
    /\ [](\A i \in 1..Len(votes) : votes[i].weight > 0)
    /\ [][(/\ Settles /\ Genuine(event') /\ Known(event')
            /\ event'.voter \notin Profiles /\ outcome'.weight = 0)
           => /\ outcome'.kind = "returned" /\ outcome'.status = "PROCESSED"
              /\ outcome'.upsert = "none" /\ outcome'.recalculated = "no"
              /\ votes' = votes
              /\ proposalResults' = proposalResults]_vars

C11_Witness ==
    /\ Settled /\ Genuine(event) /\ Known(event)
    /\ event.voter \notin Profiles /\ outcome.weight = 0
    /\ outcome.status = "PROCESSED"
    /\ Len(votes) > 0

\* C12: an event without mpaction, and an event whose voter is not its sender,
\* is rejected by processVoteReceivedEvent (it returns neither WAITING nor
\* PROCESSED), writes nothing and is reported as PARSING_FAILED, also when its
\* proposal hash is not known locally.
C12_MalformedOrSpoofedDropped ==
    /\ [][(Settles /\ ~Genuine(event'))
           => (outcome'.kind = "thrown" /\ outcome'.status = "NONE" /\ NothingWritten
               /\ removals' = removals)]_vars
    /\ [][(phase = "settled" /\ phase' = "idle" /\ ~Genuine(event))
           => (reports' = <<"PARSING_FAILED">> /\ NothingWritten)]_vars

C12_Witness ==
    /\ Settled /\ event.mpaction /\ event.voter # event.from
    /\ ~Known(event)
    /\ outcome.kind = "thrown"
    /\ Len(votes) > 0

\* C13: processVoteReceivedEvent returns WAITING only for an event whose
\* proposal is not found by its hash.
C13_WaitingOnlyWhenUnknown ==
    (Settled /\ Genuine(event) /\ Known(event)) => outcome.status # "WAITING"

\* the call has upserted its vote and its recalculation is not over
Recomputing(h) == handlers[h].pc \in {"tally", "snapshot"}

\* the call makes its upsert or a half of its recalculation in this step
UpsertsOrRecomputes(h) ==
    /\ handlers[h].pc \in {"save", "tally", "snapshot"}
    /\ handlers'[h].pc # handlers[h].pc

\* C14: while a listener call is between its upsert and the end of its
\* recalculation, no other call for the same proposal makes an upsert or a
\* recalculation.
C14_UpsertRecomputeNotInterleaved ==
    [][\A h, g \in DOMAIN handlers :
          (/\ h # g /\ Recomputing(h)
           /\ handlers[g].ev.proposalHash = handlers[h].ev.proposalHash)
          => ~UpsertsOrRecomputes(g)]_vars

\* C15: the Vote table never holds two rows of one voter for one proposal.
C15_OneRowPerVoter ==
    \A a \in Addresses : \A h \in Hashes :
       Cardinality(VotesByVoterAndProposalId(votes, a, proposals[h].id)) <= 1

\* processVoteReceivedEvent is over for every event the listener was called with
AllCompleted == \A h \in DOMAIN handlers : handlers[h].pc \in {"idle", "settled"}

\* C20: when no listener call is in flight any more, the snapshot of the
\* proposal is the tally of the rows the Vote table holds for it.
C20_SnapshotFreshWhenQuiescent ==
    (handlers # << >> /\ AllCompleted) => InSync("p1")

\* C16: a call of send gives exactly one message to smsgSend, with
\* broadcastFlag false, from the address of the voter's profile to the address
\* of the marketplace, and changes neither the votes nor the snapshots.
C16_SendDispatchesOneMessage ==
    [][sends' # sends
       => /\ Len(sends') = Len(sends) + 1
          /\ SubSeq(sends', 1, Len(sends)) = sends
          /\ LET m == sends'[Len(sends')]
             IN /\ m.broadcastFlag = FALSE
                /\ m.from = m.senderProfile /\ m.voter = m.senderProfile
                /\ m.to = m.marketplace
          /\ votes' = votes
          /\ proposalResults' = proposalResults]_vars

C16_Witness ==
    /\ Len(sends) = 2
    /\ sends[1].optionId # sends[2].optionId
    /\ Len(votes) > 0

\* C17: the daysretention send gives to smsgSend is the least whole number of
\* days that is not less than the time from now to proposal.expiredAt.
C17_RetentionIsCeiling ==
    \A i \in 1..Len(sends) :
       LET remaining == sends[i].expiredAt - sends[i].now
       IN /\ sends[i].daysretention * MsPerDay >= remaining
          /\ (sends[i].daysretention - 1) * MsPerDay < remaining

C17_Witness ==
    /\ \E i \in 1..Len(sends) : /\ sends[i].expiredAt - sends[i].now = MsPerDay + 1
                                 /\ sends[i].daysretention = 2
    /\ \E i \in 1..Len(sends) : /\ sends[i].expiredAt - sends[i].now = MsPerDay - 1
                                 /\ sends[i].daysretention = 1

\* C18: when the check for our own profiles skips an event, the Vote table holds
\* exactly one row of that voter for that proposal.
C18_SkippedVoteIsRecorded ==
    (/\ Settled /\ Genuine(event) /\ Known(event) /\ event.voter \in Profiles
     /\ outcome.status = "PROCESSED")
    => Cardinality(VotesByVoterAndProposalId(votes, event.voter, ProposalOf(event).id)) = 1

\* C19: a storable vote that was answered WAITING because its proposal was not
\* known, given to the listener again once the proposal is known and with a
\* voter whose weight is not 0, ends PROCESSED when the upsert and the
\* recalculation do not fail: the Vote table then holds exactly one row of
\* (proposal, voter), the row of this vote, and the snapshot is the tally of the
\* rows.
C19_RedeliveryConverges ==
    [][(/\ Settles /\ deferred # NoEvent /\ event' = deferred /\ Known(event')
        /\ outcome'.weight # 0
        /\ outcome'.upsert # "failed" /\ outcome'.recalculated # "failed")
       => LET p == ProposalOf(event')
              rows == VotesByVoterAndProposalId(votes', event'.voter, p.id)
          IN /\ outcome'.kind = "returned" /\ outcome'.status = "PROCESSED"
             /\ Stored(outcome')
             /\ Cardinality(rows) = 1
             /\ \A i \in rows : votes'[i] = VoteRow(event', p, outcome'.weight)
             /\ proposalResults'[event'.proposalHash]
                   = recalculateProposalResult(votes', p)]_vars

C19_Witness ==
    /\ Settled /\ deferred # NoEvent /\ event = deferred /\ Known(event)
    /\ Stored(outcome) /\ outcome.upsert = "create"
    /\ outcome.status = "PROCESSED"
    /\ Len(votes) = 2

\* the call had shouldRemoveListingItem say remove about its recalculation
DecidedRemoval(h) ==
    /\ handlers[h].tally # << >>
    /\ handlers[h].pc \in {"findListing", "destroy", "settled"}
    /\ ProposalOf(handlers[h].ev).type = "ITEM_VOTE"
    /\ shouldRemoveListingItem(handlers[h].tally, minimumRequiredVotes)

\* C21: when interleaved listener calls for the same item vote both have
\* shouldRemoveListingItem say remove, the listing is destroyed at most once and
\* each of the calls returns PROCESSED.
C21_ConcurrentRemovalProcessed ==
    /\ removals <= 1
    /\ \A h \in DOMAIN handlers :
          (DecidedRemoval(h) /\ handlers[h].pc = "settled")
          => (handlers[h].kind = "returned" /\ handlers[h].status = "PROCESSED")

\* the followed vote is given to the listener again, and nothing fails this time
RedeliveredWell ==
    /\ Settles /\ deferred # NoEvent /\ event' = deferred
    /\ outcome'.upsert # "failed" /\ outcome'.recalculated # "failed"

RowSet(vs) == {vs[i] : i \in 1..Len(vs)}

\* C23: two nodes that handle the same votes of different voters one at a time,
\* with the same weights and in any two orders, end with the same Vote rows and
\* the same snapshot.
C23_OrderIndependentTally ==
    (replay # << >> /\ replay.here = {} /\ replay.there = {})
    => /\ RowSet(votes) = RowSet(replay.db.votes)
       /\ Len(votes) = Len(replay.db.votes)
       /\ proposalResults = replay.db.proposalResults

C23_Witness ==
    /\ replay # << >> /\ replay.here = {} /\ replay.there = {}
    /\ Len(votes) = 2
    /\ votes # replay.db.votes
    /\ votes[1].optionId # votes[2].optionId
    /\ InSync("p1")

NoVotesAtAll(snapshot, o) == o \notin DOMAIN snapshot \/ snapshot[o].voters = 0

C27_OnlyItemVotesRemove ==
    /\ [](proposals["p1"].type # "ITEM_VOTE"
          => /\ removals = 0
             /\ Settled => (outcome.verdict = "none" /\ ~outcome.destroyed)
             /\ (Settled /\ Stored(outcome))
                   => (outcome.kind = "returned" /\ outcome.status = "PROCESSED"))
    /\ [][proposals["p1"].type # "ITEM_VOTE"
          => /\ listingItems' = listingItems
             /\ cryptocurrencyAddresses' = cryptocurrencyAddresses]_vars

C27_Witness ==
    /\ Settled /\ Stored(outcome) /\ Known(event)
    /\ ProposalOf(event).type = "PUBLIC_VOTE"
    /\ shouldRemoveListingItem(proposalResults[event.proposalHash], minimumRequiredVotes)
    /\ ListingFound(listingItems, ListingId)
    /\ removals = 0

\* C28: when the policy says remove and findOne does not find the flagged listing,
\* the event destroys nothing and ends PROCESSED, and the row it wrote and the
\* snapshot it recomputed are kept.
C28_MissingListingIsNoOp ==
    [][(/\ Settles /\ Genuine(event') /\ Known(event')
        /\ outcome'.recalculated = "yes" /\ outcome'.verdict = "remove"
        /\ ~ListingFound(listingItems, ProposalOf(event').listingItemId))
       => /\ ~outcome'.destroyed
          /\ listingItems' = listingItems
          /\ cryptocurrencyAddresses' = cryptocurrencyAddresses
          /\ removals' = removals
          /\ outcome'.kind = "returned" /\ outcome'.status = "PROCESSED"
          /\ \E i \in VotesByVoterAndProposalId(votes', event'.voter, ProposalOf(event').id) :
                votes'[i].optionId = event'.optionId /\ votes'[i].weight = outcome'.weight
          /\ proposalResults'[event'.proposalHash] =
                recalculateProposalResult(votes', ProposalOf(event'))]_vars

C28_Witness ==
    /\ Settled /\ Genuine(event) /\ Known(event)
    /\ outcome.recalculated = "yes" /\ outcome.verdict = "remove"
    /\ ~ListingFound(listingItems, ProposalOf(event).listingItemId)
    /\ removals = 0
    /\ outcome.status = "PROCESSED" /\ ~outcome.destroyed
    /\ InSync(event.proposalHash)

\* C29: a vote sent for a proposal that expires after now goes out with a
\* daysretention of at least 1, the least the check daysretention >= 1 of the
\* receiving node lets through; a vote sent for a proposal that has expired goes
\* out with a daysretention of 0 or less.
C29_RetentionOfLiveProposal ==
    \A i \in 1..Len(sends) :
       /\ sends[i].expiredAt > sends[i].now => sends[i].daysretention >= 1
       /\ sends[i].expiredAt <= sends[i].now => sends[i].daysretention <= 0

C29_Witness ==
    /\ \E i \in 1..Len(sends) : /\ sends[i].expiredAt - sends[i].now = 1
                                 /\ sends[i].daysretention = 1
    /\ \E i \in 1..Len(sends) : /\ sends[i].expiredAt - sends[i].now = -1
                                 /\ sends[i].daysretention = 0

\* C30: destroy(id) of a listing that is not there throws NotFoundException and
\* removes nothing; destroy(id) of a listing that is there removes that listing and
\* its CryptocurrencyAddress when it has one, and nothing else; a listing that is
\* gone stays gone, and findOne(id) and destroy(id) of it throw NotFoundException.
C30_DestroyListing ==
    [][\A id \in ListingIds :
          /\ (call'.op = "destroy" /\ call'.id = id)
                => IF ListingFound(listingItems, id)
                   THEN /\ ~call'.thrown
                        /\ DOMAIN listingItems' = (DOMAIN listingItems) \ {id}
                        /\ \A j \in DOMAIN listingItems' : listingItems'[j] = listingItems[j]
                        /\ cryptocurrencyAddresses' =
                              cryptocurrencyAddresses \ {listingItems[id].cryptocurrencyAddressId}
                        /\ listingItems[id].cryptocurrencyAddressId # 0
                              => listingItems[id].cryptocurrencyAddressId
                                    \in cryptocurrencyAddresses
                   ELSE /\ call'.thrown
                        /\ listingItems' = listingItems
                        /\ cryptocurrencyAddresses' = cryptocurrencyAddresses
          /\ (call'.op = "findOne" /\ call'.id = id)
                => /\ call'.thrown <=> ~ListingFound(listingItems, id)
                   /\ listingItems' = listingItems
                   /\ cryptocurrencyAddresses' = cryptocurrencyAddresses
          /\ ~ListingFound(listingItems, id) => ~ListingFound(listingItems', id)]_vars

C30_Witness ==
    /\ removals = MaxListings
    /\ listingItems = << >>
    /\ cryptocurrencyAddresses = {AddressId}
    /\ call.op = "findOne" /\ call.thrown

====
